---- MODULE Spec2Model ----
(***************************************************************************)
(* Model of google/cloud/storage/parallel_upload.cc: the coordinator       *)
(* NonResumableParallelUploadState::Impl, the shard write buffer           *)
(* ParallelObjectWriteStreambuf and ParallelUploadFileShard.               *)
(*                                                                         *)
(* Every member function of Impl takes mu_ on entry.  A section of code    *)
(* that runs with mu_ held and makes no blocking call is one action; the   *)
(* places where the code releases the lock (StreamFinished around the      *)
(* composer call and before the promise loop) or blocks while holding it   *)
(* (EagerCleanup around ExecuteDelete) split the function into several     *)
(* actions.                                                                *)
(***************************************************************************)
EXTENDS Integers, Sequences, FiniteSets, TLC

\* ---- bounds of the model ----
MaxCreateCalls == 2     \* CreateStream calls (successful or not)
MaxClientCalls == 2     \* WaitForCompletion and EagerCleanup calls together

Writers == 1..MaxCreateCalls      \* the writer made by the k-th CreateStream call
Waiters == 1..MaxClientCalls

VARIABLES
  \* fields of NonResumableParallelUploadState::Impl
  mu_,                      \* "free" or the name of the call holding the mutex
  finished_,
  num_unfinished_streams_,
  res_,                     \* optional<StatusOr<ObjectMetadata>>
  to_compose_,              \* vector<ComposeSourceObject>
  deleter_,                 \* TRUE while the unique_ptr holds the ScopedDeleter
  deleter_objects,          \* what ScopedDeleter::Add has been given
  cleanup_status_,
  res_promises_,            \* the promises of WaitForCompletion, by waiter
  \* the shard writers (ParallelObjectWriteStreambuf) and their Close() calls
  pc,                       \* position of each writer
  stream_idx_,
  promises_to_satisfy,      \* the local of StreamFinished
  \* the callers
  creating,                 \* a CreateStream call is inside CreateResumableSession
  numCreateCalls,
  numWaiters,
  future_,                  \* the future each WaitForCompletion call returned
  numCleanupCalls,
  \* history
  crashed,                  \* a null deleter_ was dereferenced
  firstCloseFailure,        \* the first failed response StreamFinished was given
  composeLog,               \* one record per composer invocation
  deliveries,               \* per waiter: values set_value / make_ready_future gave
  cleanupLog,               \* what each EagerCleanup call returned
  executeDeleteCalls,
  shard,                    \* per writer: what its ParallelUploadFileShard did
  response,                 \* per writer: the response its Close() reported
  sessionFailed,            \* some CreateStream call failed to open its session
  destructor,               \* ~Impl: "alive", "waiting" in wait(), or "done"
  finalized                 \* writers whose StreamFinished went past the barrier

vars == <<mu_, finished_, num_unfinished_streams_, res_, to_compose_, deleter_,
          deleter_objects, cleanup_status_, res_promises_, pc, stream_idx_,
          promises_to_satisfy, creating, numCreateCalls, numWaiters, future_,
          numCleanupCalls, crashed, firstCloseFailure, composeLog,
          deliveries, cleanupLog, executeDeleteCalls, shard, response,
          sessionFailed, destructor, finalized>>

\* ---- values ----
\* A Status or StatusOr<ObjectMetadata>: its kind, who produced it, and for a
\* composed object the descriptors it was composed from.
Val(k, i, a) == [kind |-> k, id |-> i, arg |-> a]
Unset == Val("unset", 0, <<>>)                  \* the empty optional
StatusOk == Val("OK", 0, <<>>)                  \* Status()
SessionFailure(k) == Val("SessionFailure", k, <<>>)   \* session.status() of the k-th call
CloseFailure(w) == Val("CloseFailure", w, <<>>)       \* response.status() of writer w
ComposedObject(n, a) == Val("Composed", n, a)   \* what the n-th composer call returns
ComposeFailure(n) == Val("ComposeFailure", n, <<>>)
DeleteFailure == Val("DeleteFailure", 0, <<>>)

IsFailure(v) == v.kind \notin {"unset", "OK", "Composed"}

\* ComposeSourceObject{metadata.name(), metadata.generation(), {}} of the object
\* writer w uploaded; 0 is the value-initialised element vector::resize adds.
ComposeSourceObject(w) == w
EmptySource == 0

Cancelled == Val("Cancelled", 0, <<>>)          \* the Status the shard destructor makes

\* ---- construction ----
\* Impl::Impl: the deleter and the composer are moved in, finished_ and
\* num_unfinished_streams_ are value-initialised, the rest default-constructed.
Init ==
  /\ mu_ = "free"
  /\ finished_ = FALSE
  /\ num_unfinished_streams_ = 0
  /\ res_ = Unset
  /\ to_compose_ = <<>>
  /\ deleter_ = TRUE
  /\ deleter_objects = {}
  /\ cleanup_status_ = StatusOk
  /\ res_promises_ = <<>>
  /\ pc = [w \in Writers |-> "none"]
  /\ stream_idx_ = [w \in Writers |-> 0]
  /\ promises_to_satisfy = [w \in Writers |-> <<>>]
  /\ creating = FALSE
  /\ numCreateCalls = 0
  /\ numWaiters = 0
  /\ future_ = [f \in Waiters |-> "none"]
  /\ numCleanupCalls = 0
  /\ crashed = FALSE
  /\ firstCloseFailure = Unset
  /\ composeLog = <<>>
  /\ deliveries = [f \in Waiters |-> <<>>]
  /\ cleanupLog = <<>>
  /\ executeDeleteCalls = 0
  /\ shard = [w \in Writers |-> "none"]
  /\ response = [w \in Writers |-> "none"]
  /\ sessionFailed = FALSE
  /\ destructor = "alive"
  /\ finalized = {}

\* A call can take the mutex when nobody holds it; a crashed process runs nothing.
CanLock == mu_ = "free" /\ ~crashed

\* Impl is owned through shared_ptr (shared_from_this): its member functions
\* are called only while some owner is left, that is before ~Impl starts.
Alive == destructor = "alive"

\* ---- CreateStream ----
\* raw_client.CreateResumableSession(request) is called before mu_ is taken.
CreateStreamCallSession ==
  /\ ~crashed
  /\ Alive
  /\ ~creating
  /\ numCreateCalls < MaxCreateCalls
  /\ creating' = TRUE
  /\ numCreateCalls' = numCreateCalls + 1
  /\ UNCHANGED <<mu_, finished_, num_unfinished_streams_, res_, to_compose_,
                 deleter_, deleter_objects, cleanup_status_, res_promises_, pc,
                 stream_idx_, promises_to_satisfy, numWaiters, future_,
                 numCleanupCalls, crashed, firstCloseFailure,
                 composeLog, deliveries, cleanupLog, executeDeleteCalls, shard,
                 response, sessionFailed,
                 destructor, finalized>>

\* if (!session) { res_ = session.status(); ... }
ResAfterSessionFailure(status) == status

\* The index the new ParallelObjectWriteStreambuf gets: num_unfinished_streams_++
NextStreamIndex == num_unfinished_streams_

\* The session call has returned; the rest of CreateStream runs under mu_.
CreateStreamFinish(session_ok) ==
  /\ CanLock
  /\ creating
  /\ creating' = FALSE
  /\ LET k == numCreateCalls IN
     IF ~session_ok
     THEN /\ res_' = ResAfterSessionFailure(SessionFailure(k))
          /\ sessionFailed' = TRUE
          /\ UNCHANGED <<num_unfinished_streams_, pc, stream_idx_>>
     ELSE /\ stream_idx_' = [stream_idx_ EXCEPT ![k] = NextStreamIndex]
          /\ num_unfinished_streams_' = num_unfinished_streams_ + 1
          /\ pc' = [pc EXCEPT ![k] = "open"]
          /\ UNCHANGED <<res_, sessionFailed>>
  /\ UNCHANGED <<mu_, finished_, to_compose_, deleter_, deleter_objects,
                 cleanup_status_, res_promises_, promises_to_satisfy,
                 numCreateCalls, numWaiters, future_, numCleanupCalls,
                 crashed, firstCloseFailure, composeLog, deliveries,
                 cleanupLog, executeDeleteCalls, shard,
                 response,
                 destructor, finalized>>

CreateStream == \E session_ok \in BOOLEAN : CreateStreamFinish(session_ok)

\* ---- Fail ----
OverwriteResult(status) == status

\* if (!res_) res_ = std::move(status);
PreserveFirstError(status) == IF res_ = Unset THEN status ELSE res_

Fail(status) ==
  /\ CanLock
  /\ res_' = PreserveFirstError(status)

\* ---- StreamFinished ----
\* to_compose_.resize(std::max(to_compose_.size(), stream_idx + 1));
\* to_compose_[stream_idx] = ComposeSourceObject{...};      (index from 0)
Resize(v, n) == [i \in 1..n |-> IF i <= Len(v) THEN v[i] ELSE EmptySource]
Max(a, b) == IF a >= b THEN a ELSE b
RecordSource(v, idx, src) ==
  [Resize(v, Max(Len(v), idx + 1)) EXCEPT ![idx + 1] = src]

NotDecremented(n) == n

\* --num_unfinished_streams_;
Decremented(n) == n - 1

\* if (num_unfinished_streams_ > 0) return;
MoreStreamsPending(n) == n > 0

\* if (!res_): only execute ComposeMany if all the streams succeeded.
ShouldCompose(r) == r = Unset

HolderDuringComposeKept == "StreamFinished"

\* lk.unlock() before the composer is called: who holds mu_ during the call.
HolderDuringCompose == "free"

\* Writers open for a Close() call: freshly made, or held by a shard whose
\* Upload() or destructor has called Fail and now closes the stream.
\* A destroyed shard's ostream_ closes itself when it is still open.
ClosedByDestructor(w) == pc[w] = "cancelled"
Closable(w) == pc[w] \in {"open", "failed"} \/ ClosedByDestructor(w)

\* ParallelObjectWriteStreambuf::Close: ObjectWriteStreambuf::Close() gives the
\* response, then StreamFinished runs from taking mu_ to its first unlock
\* or return.
StreamFinishedLocked(w, response_ok) ==
  /\ CanLock
  /\ Closable(w)
  /\ response' = [response EXCEPT ![w] = IF response_ok THEN "ok" ELSE "failure"]
  /\ firstCloseFailure' = IF ~response_ok /\ firstCloseFailure = Unset
                          THEN CloseFailure(w) ELSE firstCloseFailure
  /\ LET n == Decremented(num_unfinished_streams_)
         r == IF response_ok THEN res_ ELSE PreserveFirstError(CloseFailure(w))
     IN
     /\ num_unfinished_streams_' = n
     /\ IF response_ok
        THEN /\ to_compose_' = RecordSource(to_compose_, stream_idx_[w],
                                            ComposeSourceObject(w))
             /\ IF deleter_
                THEN /\ deleter_objects' = deleter_objects \cup {w}
                     /\ UNCHANGED crashed
                ELSE /\ crashed' = TRUE          \* deleter_->Add on a null pointer
                     /\ UNCHANGED deleter_objects
        ELSE UNCHANGED <<to_compose_, deleter_objects, crashed>>
     /\ IF response_ok /\ ~deleter_
        THEN UNCHANGED <<res_, finished_, res_promises_, promises_to_satisfy, pc,
                         finalized, mu_>>
        ELSE
        IF MoreStreamsPending(n)
        THEN /\ res_' = r
             /\ pc' = [pc EXCEPT ![w] = "closed"]
             /\ UNCHANGED <<finished_, res_promises_, promises_to_satisfy,
                            finalized, mu_>>
        ELSE IF ShouldCompose(r)
        THEN /\ res_' = r
             /\ pc' = [pc EXCEPT ![w] = "unlocked"]       \* lk.unlock()
             /\ mu_' = HolderDuringCompose
             /\ finalized' = finalized \cup {w}
             /\ UNCHANGED <<finished_, res_promises_, promises_to_satisfy>>
        ELSE /\ res_' = r
             /\ finished_' = TRUE
             /\ finalized' = finalized \cup {w}
             /\ UNCHANGED mu_
             /\ promises_to_satisfy' = [promises_to_satisfy EXCEPT ![w] = res_promises_]
             /\ res_promises_' = <<>>
             /\ pc' = [pc EXCEPT ![w] = IF res_promises_ = <<>> THEN "closed" ELSE "deliver"]
  /\ UNCHANGED <<deleter_, cleanup_status_, stream_idx_, creating,
                 numCreateCalls, numWaiters, future_, numCleanupCalls,
                 composeLog, deliveries, cleanupLog,
                 executeDeleteCalls, shard, sessionFailed, destructor>>

StreamFinished == \E w \in Writers, response_ok \in BOOLEAN : StreamFinishedLocked(w, response_ok)

\* auto res = composer_(to_compose_): the call starts, with mu_ released.
ComposerCall(w) ==
  /\ ~crashed
  /\ pc[w] = "unlocked"
  /\ composeLog' = Append(composeLog, [by |-> w, arg |-> to_compose_, ret |-> Unset])
  /\ pc' = [pc EXCEPT ![w] = "composing"]
  /\ UNCHANGED <<mu_, finished_, num_unfinished_streams_, res_, to_compose_,
                 deleter_, deleter_objects, cleanup_status_, res_promises_,
                 stream_idx_, promises_to_satisfy, creating, numCreateCalls,
                 numWaiters, future_, numCleanupCalls, crashed,
                 firstCloseFailure, deliveries, cleanupLog, executeDeleteCalls,
                 shard,
                 response, sessionFailed,
                 destructor, finalized>>

\* The entry of composeLog of the call writer w's StreamFinished is in.
CallOf(w) == CHOOSE n \in 1..Len(composeLog) :
               composeLog[n].by = w /\ composeLog[n].ret = Unset

\* The composer returns; lk.lock(); res_ = std::move(res); finished_ = true;
\* promises_to_satisfy = std::move(res_promises_); lk.unlock().
ComposerReturn(w, compose_ok) ==
  /\ ~crashed
  /\ mu_ \in {"free", "StreamFinished"}      \* lk.lock(), if it was released
  /\ mu_' = "free"
  /\ pc[w] = "composing"
  /\ LET n == CallOf(w)
         ret == IF compose_ok THEN ComposedObject(n, composeLog[n].arg)
                ELSE ComposeFailure(n)
     IN /\ composeLog' = [composeLog EXCEPT ![n].ret = ret]
        /\ res_' = ret
  /\ finished_' = TRUE
  /\ promises_to_satisfy' = [promises_to_satisfy EXCEPT ![w] = res_promises_]
  /\ res_promises_' = <<>>
  /\ pc' = [pc EXCEPT ![w] = IF res_promises_ = <<>> THEN "closed" ELSE "deliver"]
  /\ UNCHANGED <<num_unfinished_streams_, to_compose_, deleter_,
                 deleter_objects, cleanup_status_, stream_idx_, creating,
                 numCreateCalls, numWaiters, future_, numCleanupCalls,
                 crashed, firstCloseFailure, deliveries,
                 cleanupLog, executeDeleteCalls, shard,
                 response, sessionFailed,
                 destructor, finalized>>

Composer == \E w \in Writers :
              \/ ComposerCall(w)
              \/ \E compose_ok \in BOOLEAN : ComposerReturn(w, compose_ok)

\* The promise ~Impl waits on, among the waiters' in res_promises_.
DestructorPromise == 0

\* One iteration of: for (auto& promise : promises_to_satisfy)
\*                     promise.set_value(*res_);      (mu_ is not held)
SatisfyPromise(w) ==
  /\ ~crashed
  /\ pc[w] = "deliver"
  /\ LET f == Head(promises_to_satisfy[w]) IN
       IF f = DestructorPromise
       THEN destructor' = "done" /\ UNCHANGED deliveries     \* wait() returns
       ELSE /\ deliveries' = [deliveries EXCEPT ![f] = Append(@, res_)]
            /\ UNCHANGED destructor
  /\ promises_to_satisfy' = [promises_to_satisfy EXCEPT ![w] = Tail(@)]
  /\ pc' = [pc EXCEPT ![w] = IF Len(promises_to_satisfy[w]) = 1 THEN "closed" ELSE "deliver"]
  /\ UNCHANGED <<mu_, finished_, num_unfinished_streams_, res_, to_compose_,
                 deleter_, deleter_objects, cleanup_status_, res_promises_,
                 stream_idx_, creating, numCreateCalls, numWaiters, future_,
                 numCleanupCalls, crashed, firstCloseFailure,
                 composeLog, cleanupLog, executeDeleteCalls, shard,
                 response, sessionFailed,
                 finalized>>

SatisfyPromises == \E w \in Writers : SatisfyPromise(w)

\* ---- WaitForCompletion ----
WaitForCompletion ==
  /\ CanLock
  /\ Alive
  /\ numWaiters + numCleanupCalls < MaxClientCalls
  /\ numWaiters' = numWaiters + 1
  /\ LET f == numWaiters + 1 IN
     IF finished_
     THEN /\ future_' = [future_ EXCEPT ![f] = "ready"]      \* make_ready_future(*res_)
          /\ deliveries' = [deliveries EXCEPT ![f] = <<res_>>]
          /\ UNCHANGED res_promises_
     ELSE /\ future_' = [future_ EXCEPT ![f] = "promise"]
          /\ res_promises_' = Append(res_promises_, f)
          /\ UNCHANGED deliveries
  /\ UNCHANGED <<mu_, finished_, num_unfinished_streams_, res_, to_compose_,
                 deleter_, deleter_objects, cleanup_status_, pc, stream_idx_,
                 promises_to_satisfy, creating, numCreateCalls,
                 numCleanupCalls, crashed, firstCloseFailure,
                 composeLog, cleanupLog, executeDeleteCalls, shard,
                 response, sessionFailed,
                 destructor, finalized>>

\* ---- EagerCleanup ----
FailedPrecondition == Val("FailedPrecondition", 0, <<>>)

\* (mutation: the test of finished_ inverted)
CleanupRefusedInverted == finished_

\* if (!finished_) return Status(StatusCode::kFailedPrecondition, ...);
CleanupRefused == ~finished_

\* (mutation: the test of deleter_ left out)
MustExecuteDeleteAlways == TRUE

\* if (deleter_): make sure that only one thread interacts with the deleter.
MustExecuteDelete == deleter_

Returned(c, status, objs) ==
  [call |-> c, ret |-> status, deleted |-> objs, finished |-> finished_]

\* EagerCleanup from taking mu_ to its return, or to the call of
\* deleter_->ExecuteDelete(), which runs with mu_ held.
EagerCleanupEnter ==
  /\ CanLock
  /\ Alive
  /\ numWaiters + numCleanupCalls < MaxClientCalls
  /\ numCleanupCalls' = numCleanupCalls + 1
  /\ LET c == numCleanupCalls + 1 IN
     IF CleanupRefused
     THEN /\ cleanupLog' = Append(cleanupLog, Returned(c, FailedPrecondition, {}))
          /\ UNCHANGED <<mu_, executeDeleteCalls>>
     ELSE IF MustExecuteDelete
     THEN /\ mu_' = "EagerCleanup"
          /\ executeDeleteCalls' = executeDeleteCalls + 1
          /\ UNCHANGED cleanupLog
     ELSE /\ cleanupLog' = Append(cleanupLog, Returned(c, cleanup_status_, {}))
          /\ UNCHANGED <<mu_, executeDeleteCalls>>
  /\ UNCHANGED <<finished_, num_unfinished_streams_, res_, to_compose_, deleter_,
                 deleter_objects, cleanup_status_, res_promises_, pc, stream_idx_,
                 promises_to_satisfy, creating, numCreateCalls, numWaiters,
                 future_, crashed, firstCloseFailure, composeLog,
                 deliveries, shard,
                 response, sessionFailed,
                 destructor, finalized>>

\* cleanup_status_ = deleter_->ExecuteDelete(); deleter_.reset();
\* return cleanup_status_;
EagerCleanupExecuteDelete(delete_ok) ==
  /\ mu_ = "EagerCleanup"
  /\ cleanup_status_' = IF delete_ok THEN StatusOk ELSE DeleteFailure
  /\ deleter_' = FALSE
  /\ cleanupLog' = Append(cleanupLog,
                          Returned(numCleanupCalls, cleanup_status_', deleter_objects))
  /\ mu_' = "free"
  /\ UNCHANGED <<finished_, num_unfinished_streams_, res_, to_compose_,
                 deleter_objects, res_promises_, pc, stream_idx_,
                 promises_to_satisfy, creating, numCreateCalls, numWaiters,
                 future_, numCleanupCalls, crashed, firstCloseFailure, composeLog, deliveries, executeDeleteCalls, shard,
                 response, sessionFailed,
                 destructor, finalized>>

EagerCleanup == EagerCleanupEnter \/ \E delete_ok \in BOOLEAN : EagerCleanupExecuteDelete(delete_ok)

\* ---- ParallelUploadFileShard ----
\* Status(error_code, "ParallelUploadFileShard::Upload(" + file_name_ + "): " + reason)
UploadFailure(reason) == Val("UploadFailure", reason, <<>>)
\* 1: kNotFound, cannot open; 2: kInternal, seekg failed; 3: kInternal, read failed
UploadFailReasons == {1, 2, 3}

\* The shard holding writer w has state_ != nullptr and left_to_upload_ > 0
\* and its writer has not been closed.
ShardNotUploaded(w) == pc[w] \in {"open", "writefailed"}

\* ~ParallelUploadFileShard: state_->Fail(Status(kCancelled, ...)); the member
\* ostream_ is destroyed after that.
ShardDestroyed(w) ==
  /\ ShardNotUploaded(w)
  /\ Fail(Cancelled)
  /\ pc' = [pc EXCEPT ![w] = "cancelled"]
  /\ shard' = [shard EXCEPT ![w] = IF pc[w] = "open" THEN "abandoned" ELSE @]
  /\ UNCHANGED <<mu_, finished_, num_unfinished_streams_, to_compose_, deleter_,
                 deleter_objects, cleanup_status_, res_promises_, stream_idx_,
                 promises_to_satisfy, creating, numCreateCalls, numWaiters,
                 future_, numCleanupCalls, crashed, firstCloseFailure, composeLog,
                 deliveries, cleanupLog, executeDeleteCalls, response,
                 sessionFailed,
                 destructor, finalized>>

\* Upload(): the lambda fail: state_->Fail(status); then ostream_.Close().
UploadFails(w, reason) ==
  /\ pc[w] = "open"
  /\ Fail(UploadFailure(reason))
  /\ pc' = [pc EXCEPT ![w] = "failed"]
  /\ shard' = [shard EXCEPT ![w] = "failed"]
  /\ UNCHANGED <<mu_, finished_, num_unfinished_streams_, to_compose_, deleter_,
                 deleter_objects, cleanup_status_, res_promises_, stream_idx_,
                 promises_to_satisfy, creating, numCreateCalls, numWaiters,
                 future_, numCleanupCalls, crashed, firstCloseFailure, composeLog,
                 deliveries, cleanupLog, executeDeleteCalls, response,
                 sessionFailed,
                 destructor, finalized>>

\* Upload(): ostream_.write(...) left the stream !good(): Upload() returns
\* Status(kInternal, "Writing to output stream failed, ...") and does nothing else.
UploadWriteFails(w) ==
  /\ ~crashed
  /\ pc[w] = "open"
  /\ pc' = [pc EXCEPT ![w] = "writefailed"]
  /\ shard' = [shard EXCEPT ![w] = "writefailed"]
  /\ UNCHANGED <<mu_, finished_, num_unfinished_streams_, res_, to_compose_,
                 deleter_, deleter_objects, cleanup_status_, res_promises_,
                 stream_idx_, promises_to_satisfy, creating, numCreateCalls,
                 numWaiters, future_, numCleanupCalls, crashed,
                 firstCloseFailure, composeLog, deliveries, cleanupLog,
                 executeDeleteCalls, response, sessionFailed, destructor,
                 finalized>>

Shard == \E w \in Writers :
           \/ ShardDestroyed(w)
           \/ \E reason \in UploadFailReasons : UploadFails(w, reason)
           \/ UploadWriteFails(w)

\* ---- ~Impl ----
\* Every writer (and every shard) holds a shared_ptr to the Impl, and so does
\* the caller of a member function: the destructor starts when none is left.
NoOwnerLeft ==
  /\ ~creating
  /\ \A w \in Writers : pc[w] \in {"none", "closed"}

FutureAlwaysReady == TRUE

\* WaitForCompletion() in ~Impl: if (finished_) return make_ready_future(*res_);
FutureIsReady == finished_

\* ~Impl() { WaitForCompletion().wait(); }: the call of WaitForCompletion; a
\* ready future lets wait() return at once, a promise is waited on.
DestructorStart ==
  /\ CanLock
  /\ Alive
  /\ NoOwnerLeft
  /\ IF FutureIsReady
     THEN /\ destructor' = "done"
          /\ UNCHANGED res_promises_
     ELSE /\ destructor' = "waiting"
          /\ res_promises_' = Append(res_promises_, DestructorPromise)
  /\ UNCHANGED <<mu_, finished_, num_unfinished_streams_, res_, to_compose_,
                 deleter_, deleter_objects, cleanup_status_, pc, stream_idx_,
                 promises_to_satisfy, creating, numCreateCalls, numWaiters,
                 future_, numCleanupCalls, crashed, firstCloseFailure,
                 composeLog, deliveries, cleanupLog, executeDeleteCalls, shard,
                 response, sessionFailed, finalized>>

\* ---- the specification ----
Next ==
  \/ CreateStreamCallSession
  \/ CreateStream
  \/ StreamFinished
  \/ Composer
  \/ SatisfyPromises
  \/ WaitForCompletion
  \/ EagerCleanup
  \/ Shard
  \/ DestructorStart

Spec == Init /\ [][Next]_vars

\* ---- what the claims speak of ----
Opened == {w \in Writers : pc[w] # "none"}
\* Every CreateStream call has returned and every Close() call has too.
AllClosed == ~creating /\ \A w \in Opened : pc[w] = "closed"
FailCalled == \E w \in Writers : shard[w] # "none"
Delivered(f) == deliveries[f] # <<>>
AllDelivered(v) == \A f \in Waiters : \A i \in 1..Len(deliveries[f]) : deliveries[f][i] = v
ComposerCalls == Len(composeLog)

\* C1: when all N >= 1 opened shards have reported success, with no Fail and no
\* failed CreateStream, the composer has been invoked exactly once, with N
\* descriptors, entry i that of the shard holding index i, and the result
\* stored and delivered to the waiters is what the composer returned.
C1_ComposedOnceInIndexOrder ==
  (/\ Opened # {}
   /\ AllClosed
   /\ \A w \in Opened : response[w] = "ok"
   /\ ~FailCalled
   /\ ~sessionFailed)
  => /\ ComposerCalls = 1
     /\ Len(composeLog[1].arg) = Cardinality(Opened)
     /\ \A w \in Opened : composeLog[1].arg[stream_idx_[w] + 1] = ComposeSourceObject(w)
     /\ res_ = composeLog[1].ret
     /\ AllDelivered(composeLog[1].ret)

\* C2: once a shard has reported a failure (no Fail and no failed CreateStream
\* having been there to record another error), the composer is never invoked
\* and the final result is the failure of the shard that reported first.
C2_ShardFailureSkipsCompose ==
  (firstCloseFailure # Unset /\ ~FailCalled /\ ~sessionFailed)
  => /\ ComposerCalls = 0
     /\ finished_ => res_ = firstCloseFailure
     /\ AllDelivered(firstCloseFailure)

\* C3: first error wins: once res_ holds a failure status, no step replaces
\* it with a different value.
C3_FirstErrorWins == [][IsFailure(res_) => res_' = res_]_vars

\* C4: a waiter that registered a promise is satisfied at most once, exactly
\* once when the promise loops have run, and all such waiters get the same value.
C4_WaitersGetOneSharedValue ==
  /\ \A f \in Waiters : future_[f] = "promise" => Len(deliveries[f]) <= 1
  /\ (finished_ /\ \A w \in Writers : pc[w] # "deliver")
       => \A f \in Waiters : future_[f] = "promise" => Len(deliveries[f]) = 1
  /\ \A f, g \in Waiters :
       (future_[f] = "promise" /\ future_[g] = "promise" /\ Delivered(f) /\ Delivered(g))
         => deliveries[f][1] = deliveries[g][1]

\* C5: WaitForCompletion called after finished_ is true returns the value the
\* waiters registered before finalization were given.
C5_LateWaiterGetsSameValue ==
  \A f, g \in Waiters :
    (future_[f] = "ready" /\ future_[g] = "promise" /\ Delivered(g))
      => deliveries[f][1] = deliveries[g][1]

\* C6: EagerCleanup called while finished_ is false returns the
\* failed-precondition error, does not call ExecuteDelete and leaves the
\* deleter, the cleanup set and the recorded result as they were.
C6_CleanupRefusedBeforeFinish ==
  [][(numCleanupCalls' = numCleanupCalls + 1 /\ ~finished_)
       => /\ Len(cleanupLog') = Len(cleanupLog) + 1
          /\ cleanupLog'[Len(cleanupLog')].ret = FailedPrecondition
          /\ UNCHANGED <<executeDeleteCalls, deleter_, deleter_objects, res_,
                         cleanup_status_, mu_>>]_vars

\* An EagerCleanup call was refused while shard objects were waiting in the deleter.
C6_Witness ==
  /\ \E i \in 1..Len(cleanupLog) :
       cleanupLog[i].ret = FailedPrecondition /\ ~cleanupLog[i].finished
  /\ ~finished_
  /\ deleter_
  /\ deleter_objects # {}
  /\ executeDeleteCalls = 0

\* C7: after finalization EagerCleanup is idempotent: ExecuteDelete runs at
\* most once and every call returns the status the first one returned.
C7_CleanupIdempotent ==
  /\ executeDeleteCalls <= 1
  /\ \A i, j \in 1..Len(cleanupLog) :
       (cleanupLog[i].finished /\ cleanupLog[j].finished)
         => cleanupLog[i].ret = cleanupLog[j].ret

\* Two EagerCleanup calls after finalization, the first of which saw
\* ExecuteDelete fail.
C7_Witness ==
  /\ Len(cleanupLog) = 2
  /\ cleanupLog[1].finished /\ cleanupLog[2].finished
  /\ cleanupLog[1].ret = DeleteFailure
  /\ cleanupLog[1].deleted # {}
  /\ executeDeleteCalls = 1

\* C8: the composer is invoked at most once.
C8_ComposerAtMostOnce == ComposerCalls <= 1

\* C9: the k-th successfully opened shard writer (k = 0, 1, ...) has index k,
\* so no two writers share an index.
C9_SequentialIndices ==
  \A w \in Opened : stream_idx_[w] = Cardinality({v \in Opened : v < w})

\* Shards destroyed before Upload(), and: no other shard, and no CreateStream
\* call, has failed.
Abandoned == {w \in Writers : shard[w] = "abandoned"}
OthersSucceed ==
  /\ ~sessionFailed
  /\ \A v \in Writers \ Abandoned : shard[v] = "none" /\ response[v] # "failure"

\* C10: a shard destroyed before Upload() while every other shard succeeds:
\* the composer is not invoked and the final result is the cancellation.
C10_AbandonedShardCancels ==
  (Abandoned # {} /\ OthersSucceed)
  => /\ ComposerCalls = 0
     /\ AllClosed => (finished_ /\ res_ = Cancelled /\ AllDelivered(Cancelled))

\* C11: the destructor does not return before finished_ is true, and when it
\* has returned no StreamFinished call is running or pending (every writer that
\* was opened has closed and left StreamFinished).
C11_DestructorWaitsForFinish ==
  destructor = "done"
  => /\ finished_
     /\ \A w \in Writers : pc[w] \in {"none", "closed"}

C11_Witness ==
  /\ destructor = "done"
  /\ \E w \in Writers : pc[w] = "closed" /\ response[w] # "none"

AllSucceeded ==
  /\ Opened # {}
  /\ AllClosed
  /\ \A w \in Opened : response[w] = "ok"
  /\ ~FailCalled
  /\ ~sessionFailed
ComposerFailed ==
  \E n \in 1..Len(composeLog) : composeLog[n].ret.kind = "ComposeFailure"

\* C12: when all shards have reported success and the composer has returned a
\* failure, the final result is the composer's failure, the cleanup set holds
\* exactly the objects of the shards that reported success, and an EagerCleanup
\* executed afterwards deletes all of them.
C12_ComposeFailureIsFinal ==
  (AllSucceeded /\ ComposerFailed /\ ~crashed)
  => /\ finished_ => res_.kind = "ComposeFailure"
     /\ deleter_ => deleter_objects = Opened
     /\ \A i \in 1..Len(cleanupLog) :
          (cleanupLog[i].finished /\ cleanupLog[i].ret # FailedPrecondition
           /\ executeDeleteCalls > 0)
          => \E j \in 1..i : cleanupLog[j].deleted = Opened

\* A step that is a call of Fail: by the destructor of a shard, or by the
\* lambda fail of Upload().
FailStep ==
  \E w \in Writers : /\ pc[w] \in {"open", "writefailed"}
                     /\ pc'[w] \in {"failed", "cancelled"}

\* C13: Fail(status) changes at most res_, and only when no result is recorded
\* yet; it leaves the counter, the finished flag, the compose inputs, the
\* cleanup set and the pending waiters unchanged, satisfies no waiter and sends
\* no StreamFinished call past the barrier.
C13_FailOnlyRecords ==
  [][FailStep
     => /\ res_ # Unset => res_' = res_
        /\ res_ = Unset => IsFailure(res_')
        /\ UNCHANGED <<num_unfinished_streams_, finished_, to_compose_, deleter_,
                       deleter_objects, res_promises_, promises_to_satisfy,
                       deliveries, future_, finalized>>]_vars

C13_Witness ==
  /\ \E w \in Writers : pc[w] \in {"failed", "cancelled"}
  /\ res_ = Cancelled \/ \E reason \in UploadFailReasons : res_ = UploadFailure(reason)
  /\ ~finished_
  /\ res_promises_ # <<>>
  /\ num_unfinished_streams_ > 0

ComposerRunning == \E w \in Writers : pc[w] = "composing"

\* C14: finished_ goes from false to true once and is never reset, and it is
\* never true while a composer call that was started has not returned.
C14_FinishedAfterCompose ==
  finished_ => ~ComposerRunning

\* finished_ is never reset (the part of C14 that holds).
C14_FinishedNeverReset ==
  [][finished_ => finished_']_vars

Reported == {w \in Writers : response[w] # "none"}

\* C15: the finalization step of StreamFinished executes at most once, and
\* once it has executed every shard writer that has been opened has reported
\* its outcome (no writer is opened after the barrier has fired).
C15_FinalizedOnceAfterAll ==
  /\ Cardinality(finalized) <= 1
  /\ finalized # {} => Opened \subseteq Reported

\* C16: num_unfinished_streams_ is never negative and equals the number of
\* successfully opened shard sessions minus the number of StreamFinished calls
\* received (a failed CreateStream opens nothing and leaves it unchanged; each
\* StreamFinished call lowers it by one).
C16_CounterIsOpenedMinusReported ==
  /\ num_unfinished_streams_ >= 0
  /\ num_unfinished_streams_ = Cardinality(Opened) - Cardinality(Reported)

C16_Witness ==
  /\ Reported # {}
  /\ \E w \in Writers : pc[w] = "open"
  /\ num_unfinished_streams_ = 1

\* Upload() of shard w has returned a failure (and the shard is still alive).
UploadReturnedFailure(w) ==
  \/ pc[w] = "writefailed"
  \/ shard[w] = "failed" /\ pc[w] = "closed"

\* C17: when Upload() has returned a failure (source not opened, seek, read
\* or write failure), Fail has been called on the coordinator and the shard
\* writer has been closed, so the shard's outcome has been reported.
C17_UploadFailureReports ==
  \A w \in Writers :
    UploadReturnedFailure(w) => (res_ # Unset /\ w \in Reported)

ExecuteDeleteRunning == mu_ = "EagerCleanup"
RemoteCallInProgress == creating \/ ComposerRunning \/ ExecuteDeleteRunning

Quiescent == ~crashed /\ ~ENABLED Next

\* C19: once every opened shard writer has closed and the composer has
\* returned, whatever the outcomes of the CreateStream calls (no writer
\* opened, every CreateStream failed), finished_ is true, every future
\* returned by WaitForCompletion is resolved and the destructor has returned.
C19_EverythingCompletes ==
  Quiescent
  => /\ finished_
     /\ destructor = "done"
     /\ \A f \in Waiters : future_[f] # "none" => Delivered(f)

\* C20: StreamFinished never uses the deleter after EagerCleanup has executed
\* and reset it: every shard that has reported success found the deleter in
\* place and had its object added to it.
C20_DeleterAliveOnSuccess ==
  /\ ~crashed
  /\ \A w \in Writers : response[w] = "ok" => w \in deleter_objects

====
